---- MODULE Spec2Model ----
(***************************************************************************)
(* A model of the PixelPolish example servers:                             *)
(*   - the UI analysis server (src/mcp_server.py): image normalization and *)
(*     the three analysis tools,                                           *)
(*   - the Playwright server (src/mcp_python/playwright_mcp_server.py and  *)
(*     its copy src/playwright_mcp_server.py): scrape_website and the      *)
(*     tools built on it, analyze_ui_ux,                                   *)
(*   - the watcher (src/mcp_python/pixelpolish_watcher.py): the poll loop. *)
(* Python strings are TLA+ strings (TLC treats them as sequences of        *)
(* characters), bytes are sequences of 0..255, an Optional value is the    *)
(* empty tuple (None) or a one-element tuple.                              *)
(***************************************************************************)
EXTENDS Integers, Sequences, FiniteSets, TLC

VARIABLES
    \* ---- UI analysis server (src/mcp_server.py)
    env,            \* the process environment: the two API key variables
    client,         \* module state: "unloaded", "ready", or "raised" (import failed)
    img_pc,         \* "idle" or "returned": position of the current tool call
    img_call,       \* the tool called and its argument
    img_result,     \* how the call ended: [kind |-> "return" | "raise", val |-> string]
    img_events,     \* the external effects of the call, in order
    fs_read,        \* the bytes the call read from the file system (None if none)
    \* ---- Playwright server (src/mcp_python/playwright_mcp_server.py)
    call,           \* per tool invocation: its position, arguments, locals and result
    browsers,       \* every browser launched so far: <<[state |-> "open" | "closed"]>>
    \* ---- analyze_ui_ux (src/mcp_python/playwright_mcp_server.py)
    ux_pc,          \* "idle" or "returned"
    ux_call,        \* the arguments, and whether the openai package can be imported
    ux_text,        \* analysis_text, the content of the API response (None if none)
    ux_result,      \* the UIAnalysisResult returned
    ux_events,      \* the external effects of the call, in order
    \* ---- the watcher (src/mcp_python/pixelpolish_watcher.py)
    w_pc,               \* the position of watch_for_changes
    last_analysis_time, \* self.last_analysis_time
    w_browser,          \* self.browser: "none", "open" or "closed"
    w_playwright,       \* self.playwright: "unset", "started" or "stopped"
    w_poll,             \* what the dashboard answered in this iteration
    w_steps,            \* the pipeline steps run in this iteration, in order
    w_screenshot,       \* screenshot_b64 of this iteration: None or the image
    w_ai,               \* ai_analysis of this iteration: None or the record
    w_exit,             \* why the loop was left: "", "unhealthy", "interrupt", "error"
    w_last_trigger,     \* the timestamp that last started the pipeline, while the
                        \* polls since then returned that same timestamp
    w_health_checks,    \* how many times check_server_health was called
    w_health,           \* what GET /health gave: None before the check
    \* ---- scrape_and_analyze_ui (src/mcp_python/playwright_mcp_server.py)
    sa_pc,              \* the position of the call
    sa_scrape,          \* scrape_result
    sa_events,          \* the calls it made, in order, with their arguments
    sa_result           \* the record it returned

imgVars == <<env, client, img_pc, img_call, img_result, img_events, fs_read>>
scrVars == <<call, browsers>>
uxVars == <<ux_pc, ux_call, ux_text, ux_result, ux_events>>
wVars == <<w_pc, last_analysis_time, w_browser, w_playwright, w_poll, w_steps,
           w_screenshot, w_ai, w_exit, w_last_trigger, w_health_checks, w_health>>

saVars == <<sa_pc, sa_scrape, sa_events, sa_result>>

vars == <<imgVars, scrVars, uxVars, wVars, saVars>>

-----------------------------------------------------------------------------
(* Python values                                                           *)

None == <<>>
Some(v) == <<v>>
Val(o) == o[1]

\* Python truthiness of an Optional[str]: None and "" are falsy.
Truthy(o) == o # None /\ Val(o) # ""

\* x or default, for an Optional[str]
OrElse(o, default) == IF Truthy(o) THEN Val(o) ELSE default

Min(S) == CHOOSE x \in S : \A y \in S : x <= y
Max(S) == CHOOSE x \in S : \A y \in S : x >= y

CharAt(s, i) == SubSeq(s, i, i)

\* str.startswith
StartsWith(s, p) == Len(s) >= Len(p) /\ SubSeq(s, 1, Len(p)) = p

\* str.find(sub, start): the lowest 0-based index at or after start, or -1
Find(s, sub, start) ==
    LET hits == {i \in start..(Len(s) - Len(sub)) : SubSeq(s, i + 1, i + Len(sub)) = sub}
    IN  IF hits = {} THEN -1 ELSE Min(hits)

\* str.rfind(sub): the highest 0-based index, or -1
RFind(s, sub) ==
    LET hits == {i \in 0..(Len(s) - Len(sub)) : SubSeq(s, i + 1, i + Len(sub)) = sub}
    IN  IF hits = {} THEN -1 ELSE Max(hits)

\* s[a:b] with Python's rules: a negative index counts from the end, both
\* ends are clamped to 0..len(s), an empty range gives "".
Clamp(i, n) == IF i < 0 THEN (IF i + n < 0 THEN 0 ELSE i + n) ELSE (IF i > n THEN n ELSE i)
Slice(s, a, b) ==
    LET lo == Clamp(a, Len(s))
        hi == Clamp(b, Len(s))
    IN  IF lo >= hi THEN "" ELSE SubSeq(s, lo + 1, hi)

\* s[a:]
SliceFrom(s, a) == Slice(s, a, Len(s))

UpperChars == "ABCDEFGHIJKLMNOPQRSTUVWXYZ"
LowerChars == "abcdefghijklmnopqrstuvwxyz"

LowerChar(c) ==
    LET i == Find(UpperChars, c, 0)
    IN  IF i = -1 THEN c ELSE CharAt(LowerChars, i + 1)

\* str.lower
RECURSIVE Lower(_)
Lower(s) == IF s = "" THEN "" ELSE LowerChar(CharAt(s, 1)) \o Lower(Tail(s))

\* str.strip (of blanks and newlines)
IsSpace(c) == c \in {" ", "\n", "\t", "\r"}
RECURSIVE LStrip(_)
LStrip(s) == IF s # "" /\ IsSpace(CharAt(s, 1)) THEN LStrip(Tail(s)) ELSE s
RECURSIVE RStrip(_)
RStrip(s) ==
    IF s # "" /\ IsSpace(CharAt(s, Len(s))) THEN RStrip(SubSeq(s, 1, Len(s) - 1)) ELSE s
Strip(s) == RStrip(LStrip(s))

-----------------------------------------------------------------------------
(* base64.b64encode / b64decode over bytes (sequences of 0..255)           *)

B64Alphabet == "ABCDEFGHIJKLMNOPQRSTUVWXYZabcdefghijklmnopqrstuvwxyz0123456789+/"

B64Char(n) == CharAt(B64Alphabet, n + 1)

RECURSIVE B64Encode(_)
B64Encode(b) ==
    IF Len(b) = 0 THEN ""
    ELSE IF Len(b) = 1 THEN
        B64Char(b[1] \div 4) \o B64Char((b[1] % 4) * 16) \o "=="
    ELSE IF Len(b) = 2 THEN
        B64Char(b[1] \div 4) \o B64Char((b[1] % 4) * 16 + b[2] \div 16)
            \o B64Char((b[2] % 16) * 4) \o "="
    ELSE
        B64Char(b[1] \div 4) \o B64Char((b[1] % 4) * 16 + b[2] \div 16)
            \o B64Char((b[2] % 16) * 4 + b[3] \div 64) \o B64Char(b[3] % 64)
            \o B64Encode(SubSeq(b, 4, Len(b)))

B64Index(c) == Find(B64Alphabet, c, 0)

\* b64decode of a padded string whose length is a multiple of 4
RECURSIVE B64Decode(_)
B64Decode(s) ==
    IF Len(s) < 4 THEN <<>>
    ELSE
        LET c1 == B64Index(CharAt(s, 1))
            c2 == B64Index(CharAt(s, 2))
            p3 == CharAt(s, 3) = "="
            p4 == CharAt(s, 4) = "="
            c3 == IF p3 THEN 0 ELSE B64Index(CharAt(s, 3))
            c4 == IF p4 THEN 0 ELSE B64Index(CharAt(s, 4))
            b1 == c1 * 4 + c2 \div 16
            b2 == (c2 % 16) * 16 + c3 \div 4
            b3 == (c3 % 4) * 64 + c4
        IN  IF p3 THEN <<b1>>
            ELSE IF p4 THEN <<b1, b2>>
            ELSE <<b1, b2, b3>> \o B64Decode(SubSeq(s, 5, Len(s)))

-----------------------------------------------------------------------------
(* The UI analysis server: src/mcp_server.py                               *)

\* The longest file content read in the model, and the byte values used.
MaxFileLen == 3
ByteSamples == {0, 255}

RECURSIVE BytesUpTo(_)
BytesUpTo(n) ==
    IF n = 0 THEN {<<>>}
    ELSE LET shorter == BytesUpTo(n - 1)
         IN  shorter \cup {Append(b, x) : b \in {c \in shorter : Len(c) = n - 1}, x \in ByteSamples}

FileContents == BytesUpTo(MaxFileLen)

\* The files that exist, and paths that name no file.
ExistingPaths == {"shots/a.png", "B.PNG", "c.jpg", "d.jpeg", "e.gif", "f.webp",
                  "g.bmp", "noext", "v1.2/h"}
MissingPaths == {"gone.png"}
FilePaths == ExistingPaths \cup MissingPaths

\* The three shapes of image input; every record carries all the fields.
StrInput(s) ==
    [type |-> "str", s |-> s, base64_data |-> None, file_path |-> None,
     url |-> None, format_hint |-> None, data |-> "", mimeType |-> ""]
ImageInput(b, f, u, h) ==
    [type |-> "ImageInput", s |-> "", base64_data |-> b, file_path |-> f,
     url |-> u, format_hint |-> h, data |-> "", mimeType |-> ""]
ImageContent(d, m) ==
    [type |-> "ImageContent", s |-> "", base64_data |-> None, file_path |-> None,
     url |-> None, format_hint |-> None, data |-> d, mimeType |-> m]
OtherInput ==
    [type |-> "int", s |-> "", base64_data |-> None, file_path |-> None,
     url |-> None, format_hint |-> None, data |-> "", mimeType |-> ""]

\* mime_type_map
MimeTypeMap ==
    [e \in {".png", ".jpg", ".jpeg", ".gif", ".webp"} |->
        CASE e = ".png"  -> "image/png"
          [] e = ".jpg"  -> "image/jpeg"
          [] e = ".jpeg" -> "image/jpeg"
          [] e = ".gif"  -> "image/gif"
          [] e = ".webp" -> "image/webp"]

\* mime_type_map.get(ext, 'image/png')
MimeTypeOf(ext) == IF ext \in DOMAIN MimeTypeMap THEN MimeTypeMap[ext] ELSE "image/png"

\* pathlib: Path(p).name and Path(p).suffix
PathName(p) == SliceFrom(p, RFind(p, "/") + 1)
PathSuffix(p) ==
    LET name == PathName(p)
        i    == RFind(name, ".")
    IN  IF 0 < i /\ i < Len(name) - 1 THEN SliceFrom(name, i) ELSE ""

Return(v) == [kind |-> "return", type |-> "", val |-> v]
Raise(type, msg) == [kind |-> "raise", type |-> type, val |-> msg]

\* A slip of the encoding step: the padding is dropped.
EncodeFileUnpadded(content) ==
    LET e == B64Encode(content)
        n == Find(e, "=", 0)
    IN  IF n = -1 THEN e ELSE Slice(e, 0, n)

\* Lines 107-108: base64.b64encode(f.read()).decode()
EncodeFile(content) == B64Encode(content)

\* A resolution that looks at file_path before base64_data.
NormalizeFileFirst(image_input, content) ==
    IF image_input.type = "ImageInput" /\ Truthy(image_input.file_path)
    THEN IF Val(image_input.file_path) \notin ExistingPaths
         THEN Raise("ValueError", "Image file not found: " \o Val(image_input.file_path))
         ELSE Return("data:image/png;base64," \o EncodeFile(content))
    ELSE Raise("ValueError", "ImageInput must provide either base64_data, file_path, or url")

\* normalize_base64_image; content is what f.read() gives when the file is read.
NormalizeBase64Image(image_input, content) ==
    IF image_input.type = "str" THEN
        IF StartsWith(image_input.s, "data:image/")
        THEN Return(image_input.s)
        ELSE Return("data:image/png;base64," \o image_input.s)
    ELSE IF image_input.type = "ImageContent" THEN
        LET mime_type == IF image_input.mimeType # "" THEN image_input.mimeType ELSE "image/png"
        IN  Return("data:" \o mime_type \o ";base64," \o image_input.data)
    ELSE IF image_input.type = "ImageInput" THEN
        IF Truthy(image_input.base64_data) THEN
            IF StartsWith(Val(image_input.base64_data), "data:image/")
            THEN Return(Val(image_input.base64_data))
            ELSE LET format_hint == OrElse(image_input.format_hint, "png")
                 IN  Return("data:image/" \o format_hint \o ";base64,"
                                \o Val(image_input.base64_data))
        ELSE IF Truthy(image_input.file_path) THEN
            LET file_path == Val(image_input.file_path)
            IN  IF file_path \notin ExistingPaths
                THEN Raise("ValueError", "Image file not found: " \o file_path)
                ELSE LET image_data == EncodeFile(content)
                         ext       == Lower(PathSuffix(file_path))
                         mime_type == MimeTypeOf(ext)
                     IN  Return("data:" \o mime_type \o ";base64," \o image_data)
        ELSE IF Truthy(image_input.url) THEN
            Raise("NotImplementedError", "URL-based image input not yet implemented")
        ELSE
            Raise("ValueError", "ImageInput must provide either base64_data, file_path, or url")
    ELSE
        Raise("ValueError", "Unsupported image input type: " \o image_input.type)

\* Whether normalize_base64_image opens the file its input names (lines 100-108).
ReadsFile(image_input) ==
    /\ image_input.type = "ImageInput"
    /\ ~Truthy(image_input.base64_data)
    /\ Truthy(image_input.file_path)
    /\ Val(image_input.file_path) \in ExistingPaths

\* The inputs the calls are made with.
Base64Strings == {"QUJD", "", "data:image/jpeg;base64,QUJD", "data:image/png;base64,QUJD"}
FormatHints == {None, Some(""), Some("png"), Some("jpeg"), Some("jpg"), Some("webp"), Some("bmp")}
ImageUrls == {None, Some("http://host/shot.png")}
ImageInputs ==
    {ImageInput(b, f, u, h) :
        b \in {None, Some(""), Some("QUJD"), Some("data:image/gif;base64,QUJD")},
        f \in {None, Some("c.jpg")},
        u \in ImageUrls,
        h \in FormatHints}
    \cup
    {ImageInput(b, f, u, h) :
        b \in {None, Some("")},
        f \in {None, Some("")} \cup {Some(p) : p \in FilePaths},
        u \in ImageUrls,
        h \in {None, Some("jpeg")}}
ImageContents ==
    {ImageContent("QUJD", m) : m \in {"", "image/png", "image/jpeg", "image/webp"}}
StrInputs == {StrInput(s) : s \in Base64Strings}
AllImageInputs == StrInputs \cup ImageInputs \cup ImageContents \cup {OtherInput}

\* What client.chat.completions.create does: a response with content (possibly
\* empty), or an exception.
ApiOutcomes ==
    {[kind |-> "content", val |-> "1. ISSUES IDENTIFIED: low contrast"],
     [kind |-> "content", val |-> ""],
     [kind |-> "raise", val |-> "Connection error."]}

EnvValues ==
    [OPENROUTER_API_KEY : {None, Some(""), Some("sk-or-1")},
     OPENAI_API_KEY : {None, Some("sk-2")}]

MissingKeyMessage ==
    "Error: OPENROUTER_API_KEY environment variable not set. Please set your OpenRouter API key."
EmptyResponseMessage ==
    "Error: OpenRouter API returned an empty response. Please try with a different image."

\* Module level, lines 25-29: openai.OpenAI(api_key=os.getenv("OPENROUTER_API_KEY")).
\* The constructor takes a None api_key from OPENAI_API_KEY and raises
\* OpenAIError when that is unset too.
ClientConstruction(e) ==
    IF e.OPENROUTER_API_KEY = None /\ e.OPENAI_API_KEY = None THEN "raised" ELSE "ready"

\* A tool that normalizes the image before it looks for the key.
AnalyzeUiScreenshotKeyLast(e, image, content, api) ==
    LET n == NormalizeBase64Image(image, content)
        evN == <<"normalize">> \o (IF ReadsFile(image) THEN <<"read_file">> ELSE <<>>)
    IN  IF n.kind = "raise"
        THEN [result |-> Return("Error analyzing UI screenshot: " \o n.val), events |-> evN]
        ELSE [result |-> Return(MissingKeyMessage), events |-> evN \o <<"getenv">>]

\* The body of analyze_ui_screenshot: the result and the effects, in order.
AnalyzeUiScreenshot(e, image, content, api) ==
    IF ~Truthy(e.OPENROUTER_API_KEY) THEN
        [result |-> Return(MissingKeyMessage), events |-> <<"getenv">>]
    ELSE
        LET n   == NormalizeBase64Image(image, content)
            evN == <<"getenv", "normalize">>
                     \o (IF ReadsFile(image) THEN <<"read_file">> ELSE <<>>)
        IN  IF n.kind = "raise" THEN
                [result |-> Return("Error analyzing UI screenshot: " \o n.val), events |-> evN]
            ELSE IF api.kind = "raise" THEN
                [result |-> Return("Error analyzing UI screenshot: " \o api.val),
                 events |-> evN \o <<"api_request">>]
            ELSE IF api.val = "" THEN
                [result |-> Return(EmptyResponseMessage), events |-> evN \o <<"api_request">>]
            ELSE
                [result |-> Return(api.val), events |-> evN \o <<"api_request">>]

ImgIdle ==
    /\ img_pc = "idle"
    /\ img_call = [tool |-> "", image |-> OtherInput]
    /\ img_result = Return("")
    /\ img_events = <<>>
    /\ fs_read = None

InitImage ==
    /\ env \in EnvValues
    /\ client = "unloaded"
    /\ ImgIdle

\* Importing the module runs the client construction.
LoadModule ==
    /\ client = "unloaded"
    /\ client' = ClientConstruction(env)
    /\ UNCHANGED <<env, img_pc, img_call, img_result, img_events, fs_read, scrVars, uxVars, wVars, saVars>>

\* A direct call of normalize_base64_image(image).
CallNormalize ==
    /\ client = "ready"
    /\ img_pc = "idle"
    /\ \E image \in AllImageInputs :
       \E content \in (IF ReadsFile(image) THEN FileContents ELSE {<<>>}) :
          /\ img_call' = [tool |-> "normalize_base64_image", image |-> image]
          /\ img_result' = NormalizeBase64Image(image, content)
          /\ img_events' = <<"normalize">> \o (IF ReadsFile(image) THEN <<"read_file">> ELSE <<>>)
          /\ fs_read' = IF ReadsFile(image) THEN Some(content) ELSE None
    /\ img_pc' = "returned"
    /\ UNCHANGED <<env, client, scrVars, uxVars, wVars, saVars>>

\* One run of the body of analyze_ui_screenshot on image, for the tool named.
RunAnalyze(tool, image) ==
    LET reads == Truthy(env.OPENROUTER_API_KEY) /\ ReadsFile(image)
        calls == Truthy(env.OPENROUTER_API_KEY)
                  /\ NormalizeBase64Image(image, <<>>).kind = "return"
    IN  \E content \in (IF reads THEN FileContents ELSE {<<>>}) :
        \E api \in (IF calls THEN ApiOutcomes ELSE {[kind |-> "content", val |-> ""]}) :
          LET out == AnalyzeUiScreenshot(env, image, content, api)
          IN  /\ img_call' = [tool |-> tool, image |-> image]
              /\ img_result' = out.result
              /\ img_events' = out.events
              /\ fs_read' = IF \E i \in 1..Len(out.events) : out.events[i] = "read_file"
                             THEN Some(content) ELSE None

\* The tool analyze_ui_screenshot(image).
CallAnalyzeUiScreenshot ==
    /\ client = "ready"
    /\ img_pc = "idle"
    /\ \E image \in AllImageInputs : RunAnalyze("analyze_ui_screenshot", image)
    /\ img_pc' = "returned"
    /\ UNCHANGED <<env, client, scrVars, uxVars, wVars, saVars>>

\* The tool analyze_ui_from_path(file_path).
CallAnalyzeUiFromPath ==
    /\ client = "ready"
    /\ img_pc = "idle"
    /\ \E file_path \in FilePaths \cup {""} :
          RunAnalyze("analyze_ui_from_path", ImageInput(None, Some(file_path), None, None))
    /\ img_pc' = "returned"
    /\ UNCHANGED <<env, client, scrVars, uxVars, wVars, saVars>>

\* The tool analyze_ui_from_base64(base64_data).
CallAnalyzeUiFromBase64 ==
    /\ client = "ready"
    /\ img_pc = "idle"
    /\ \E base64_data \in Base64Strings :
          RunAnalyze("analyze_ui_from_base64", StrInput(base64_data))
    /\ img_pc' = "returned"
    /\ UNCHANGED <<env, client, scrVars, uxVars, wVars, saVars>>

\* The caller takes the result; the server is ready for the next call.
ImgNextCall ==
    /\ img_pc = "returned"
    /\ img_pc' = "idle"
    /\ img_call' = [tool |-> "", image |-> OtherInput]
    /\ img_result' = Return("")
    /\ img_events' = <<>>
    /\ fs_read' = None
    /\ UNCHANGED <<env, client, scrVars, uxVars, wVars, saVars>>

NextImage ==
    \/ LoadModule
    \/ CallNormalize
    \/ CallAnalyzeUiScreenshot
    \/ CallAnalyzeUiFromPath
    \/ CallAnalyzeUiFromBase64
    \/ ImgNextCall

-----------------------------------------------------------------------------
(* The Playwright server: src/mcp_python/playwright_mcp_server.py          *)
(* (src/playwright_mcp_server.py holds the same scraping tools)            *)

\* The tool invocations that may be in progress at once.
Calls == {1, 2}

\* How many browsers are launched in a run of the model.
MaxLaunches == 3

Digits == "0123456789"

\* str(n) for n >= 0
RECURSIVE IntToStr(_)
IntToStr(n) ==
    IF n < 10 THEN CharAt(Digits, n + 1)
    ELSE IntToStr(n \div 10) \o CharAt(Digits, (n % 10) + 1)

\* class ScrapeOptions: the defaults of its fields
DefaultOptions ==
    [screenshot |-> TRUE, dom |-> TRUE, full_page |-> TRUE,
     viewport_width |-> 1920, viewport_height |-> 1080,
     timeout |-> 30000, wait_until |-> "domcontentloaded"]

OptionKeys == {"screenshot", "dom", "full_page", "viewport_width", "viewport_height",
               "timeout", "wait_until"}

\* A Python dict of options: each known key absent (None) or present, the keys
\* whose value has a type pydantic cannot coerce, and the keys ScrapeOptions
\* does not declare.
Dict(sc, dm, fp, vw, vh, to, wu, mistyped, unknown) ==
    [screenshot |-> sc, dom |-> dm, full_page |-> fp, viewport_width |-> vw,
     viewport_height |-> vh, timeout |-> to, wait_until |-> wu,
     mistyped |-> mistyped, unknown |-> unknown]

EmptyDict == Dict(None, None, None, None, None, None, None, {}, {})

\* The values the options parameter takes: None, a dict, or the FieldInfo
\* object that is the parameter's default in the function signature
\* (options = Field(default=None, ...)), which a direct Python call that
\* omits the argument receives.
PyNone == [kind |-> "None", d |-> EmptyDict]
FieldInfo == [kind |-> "FieldInfo", d |-> EmptyDict]
PyDict(d) == [kind |-> "dict", d |-> d]

\* options or {}
OptionsOrEmpty(options) ==
    IF options.kind = "None" \/ (options.kind = "dict" /\ options.d = EmptyDict)
    THEN PyDict(EmptyDict)
    ELSE options

Field(d, k) == IF d[k] = None THEN DefaultOptions[k] ELSE Val(d[k])

\* Line 92: opts = ScrapeOptions(**(options or {})). ** of an object that is
\* no mapping raises TypeError; a value of the wrong type raises pydantic's
\* ValidationError; unknown keys are ignored.
ParseOptions(options) ==
    LET o == OptionsOrEmpty(options)
    IN  IF o.kind # "dict" THEN
            [ok |-> FALSE, exc |-> "TypeError", opts |-> DefaultOptions]
        ELSE IF o.d.mistyped # {} THEN
            [ok |-> FALSE, exc |-> "ValidationError", opts |-> DefaultOptions]
        ELSE
            [ok |-> TRUE, exc |-> "",
             opts |-> [k \in OptionKeys |-> Field(o.d, k)]]

\* class ScrapeResult
ScrapeResult(url, title, screenshot, dom, error, status) ==
    [url |-> url, title |-> title, screenshot |-> screenshot, dom |-> dom,
     error |-> error, status |-> status]

NoResult == ScrapeResult("", None, None, None, None, None)

\* What the page gives: its title, its screenshot (PNG bytes), its DOM.
PageTitles == {"", "Example Domain"}
ScreenshotBytes == <<137, 80, 78, 71>>
PageDom == "<html><body>Example</body></html>"
Urls == {"https://example.com", "http://localhost:9/down"}

\* What page.goto does: a response with a status, no response object, the
\* navigation timeout, or another error.
NavOutcomes ==
    {[kind |-> "response", status |-> 200], [kind |-> "response", status |-> 399],
     [kind |-> "response", status |-> 400], [kind |-> "response", status |-> 503],
     [kind |-> "noresponse", status |-> 0],
     [kind |-> "timeout", status |-> 0],
     [kind |-> "error", status |-> 0]}

NoException == [type |-> "", msg |-> ""]

\* Lines 159-170: the result the except clauses build for a pending exception.
ErrorResult(url, opts, exc) ==
    IF exc.type = "PlaywrightTimeout"
    THEN ScrapeResult(url, None, None, None,
            Some("Timeout: Page took too long to load (>" \o IntToStr(opts.timeout) \o "ms)"),
            None)
    ELSE ScrapeResult(url, None, None, None, Some("Error: " \o exc.msg), None)

\* One invocation's record.
IdleCall ==
    [pc |-> "idle", tool |-> "", url |-> "", options |-> PyNone, opts |-> DefaultOptions,
     browser |-> 0, status |-> None, title |-> None, screenshot_b64 |-> None,
     dom_content |-> None, exc |-> NoException, raised |-> "", result |-> NoResult,
     conn |-> ""]

InitScrape ==
    /\ call = [c \in Calls |-> IdleCall]
    /\ browsers = <<>>

\* The options the callers pass.
OptionValues ==
    {PyNone, FieldInfo, PyDict(EmptyDict),
     PyDict(Dict(Some(FALSE), None, None, None, None, None, None, {}, {})),
     PyDict(Dict(None, Some(FALSE), None, None, None, None, None, {}, {})),
     PyDict(Dict(Some(FALSE), Some(FALSE), None, None, None, None, None, {}, {})),
     PyDict(Dict(None, None, Some(FALSE), Some(800), Some(600), Some(5000), Some("load"), {}, {})),
     PyDict(Dict(None, None, None, None, None, None, None, {"timeout"}, {})),
     PyDict(Dict(None, None, None, None, None, None, None, {}, {"colour"}))}

\* scrape_website entered with url and options: line 92 runs before the try.
Enter(c, tool, url, options) ==
    LET parsed == ParseOptions(options)
    IN  call' = [call EXCEPT ![c] =
            [IdleCall EXCEPT
                !.tool = tool, !.url = url, !.options = options,
                !.opts = parsed.opts,
                !.pc = IF parsed.ok THEN "launch" ELSE "done",
                !.raised = IF parsed.ok THEN "" ELSE parsed.exc]]

\* The tool scrape_website(url, options).
CallScrapeWebsite(c) ==
    /\ call[c].pc = "idle"
    /\ \E url \in Urls, options \in OptionValues \ {FieldInfo} :
          Enter(c, "scrape_website", url, options)
    /\ UNCHANGED <<browsers, imgVars, uxVars, wVars, saVars>>

\* The tool scrape_url_simple(url): return await scrape_website(url).
CallScrapeUrlSimple(c) ==
    /\ call[c].pc = "idle"
    /\ \E url \in Urls : Enter(c, "scrape_url_simple", url, FieldInfo)
    /\ UNCHANGED <<browsers, imgVars, uxVars, wVars, saVars>>

\* The tool take_screenshot(url, full_page, width, height).
CallTakeScreenshot(c) ==
    /\ call[c].pc = "idle"
    /\ \E url \in Urls, full_page \in BOOLEAN, size \in {<<1920, 1080>>, <<375, 812>>} :
          Enter(c, "take_screenshot", url,
                PyDict(Dict(Some(TRUE), Some(FALSE), Some(full_page), Some(size[1]),
                            Some(size[2]), None, None, {}, {})))
    /\ UNCHANGED <<browsers, imgVars, uxVars, wVars, saVars>>

\* The tool extract_page_content(url).
CallExtractPageContent(c) ==
    /\ call[c].pc = "idle"
    /\ \E url \in Urls :
          Enter(c, "extract_page_content", url,
                PyDict(Dict(Some(FALSE), Some(TRUE), None, None, None, None, None, {}, {})))
    /\ UNCHANGED <<browsers, imgVars, uxVars, wVars, saVars>>

\* The tool test_browser_connection().
CallTestBrowserConnection(c) ==
    /\ call[c].pc = "idle"
    /\ call' = [call EXCEPT ![c] = [IdleCall EXCEPT !.tool = "test_browser_connection",
                                                    !.pc = "launch"]]
    /\ UNCHANGED <<browsers, imgVars, uxVars, wVars, saVars>>

\* A launch that hands every invocation the first browser of the server.
SharedBrowser(bs) == 1

\* Line 99: p.chromium.launch starts a new browser for this invocation; the
\* local variable browser refers to it.
LaunchedBrowser(bs) == Len(bs) + 1

\* The exception of a page operation on a browser that is no longer open.
TargetClosed == [type |-> "Error", msg |-> "Target page, context or browser has been closed"]

\* The browser the invocation in slot c works with is open.
BrowserOpen(c) ==
    /\ call[c].browser \in 1..Len(browsers)
    /\ browsers[call[c].browser].state = "open"

\* async with async_playwright() as p: browser = await p.chromium.launch(...).
\* A launch gives a browser that did not exist before; a failure to start the
\* driver or the browser raises inside the try.
Launch(c) ==
    /\ call[c].pc = "launch"
    /\ \/ /\ Len(browsers) < MaxLaunches
          /\ browsers' = Append(browsers, [state |-> "open"])
          /\ call' = [call EXCEPT ![c].browser = LaunchedBrowser(browsers),
                                  ![c].pc = IF call[c].tool = "test_browser_connection"
                                            THEN "close" ELSE "navigate"]
       \/ /\ call' = [call EXCEPT ![c].exc = [type |-> "Error",
                                               msg |-> "Executable doesn't exist"],
                                  ![c].pc = "exit_context"]
          /\ UNCHANGED browsers
    /\ UNCHANGED <<imgVars, uxVars, wVars, saVars>>

\* A check that lets the client errors through.
HttpFailureFrom500(response) == response.kind = "response" /\ response.status >= 500

\* Line 124: if response and response.status >= 400
HttpFailure(response) == response.kind = "response" /\ response.status >= 400

\* Lines 102-125: new_context, new_page, goto, the status check.
Navigate(c) ==
    /\ call[c].pc = "navigate"
    /\ \E nav \in NavOutcomes :
          call' = [call EXCEPT ![c] =
            IF ~BrowserOpen(c) THEN
                [@ EXCEPT !.exc = TargetClosed, !.pc = "exit_context"]
            ELSE IF nav.kind = "timeout" THEN
                [@ EXCEPT !.exc = [type |-> "PlaywrightTimeout", msg |-> "Timeout exceeded"],
                          !.pc = "exit_context"]
            ELSE IF nav.kind = "error" THEN
                [@ EXCEPT !.exc = [type |-> "Error", msg |-> "net::ERR_CONNECTION_REFUSED"],
                          !.pc = "exit_context"]
            ELSE IF HttpFailure(nav) THEN
                [@ EXCEPT !.status = Some(nav.status),
                          !.exc = [type |-> "Exception",
                                   msg |-> "HTTP " \o IntToStr(nav.status) \o " error"],
                          !.pc = "exit_context"]
            ELSE
                [@ EXCEPT !.status = IF nav.kind = "response" THEN Some(nav.status) ELSE None,
                          !.pc = "capture"]]
    /\ UNCHANGED <<browsers, imgVars, uxVars, wVars, saVars>>

\* Lines 130-138: screenshot_b64 stays None unless opts.screenshot
CapturedScreenshot(opts) ==
    IF opts.screenshot THEN Some(B64Encode(ScreenshotBytes)) ELSE None

\* A capture that reads the DOM whatever the options say.
CapturedDomAlways(opts) == Some(PageDom)

\* Lines 140-144: dom_content stays None unless opts.dom
CapturedDom(opts) == IF opts.dom THEN Some(PageDom) ELSE None

\* Lines 127-144: the title, the screenshot if requested, the DOM if requested;
\* any of the three calls may raise.
Capture(c) ==
    /\ call[c].pc = "capture"
    /\ \/ /\ ~BrowserOpen(c)
          /\ call' = [call EXCEPT ![c].exc = TargetClosed, ![c].pc = "exit_context"]
       \/ \E title \in PageTitles :
             /\ BrowserOpen(c)
             /\ call' = [call EXCEPT
                ![c].title = Some(title),
                ![c].screenshot_b64 = CapturedScreenshot(call[c].opts),
                ![c].dom_content = CapturedDom(call[c].opts),
                ![c].pc = "close"]
       \/ /\ BrowserOpen(c)
          /\ call' = [call EXCEPT ![c].exc = [type |-> "Error", msg |-> "Target crashed"],
                                  ![c].pc = "exit_context"]
    /\ UNCHANGED <<browsers, imgVars, uxVars, wVars, saVars>>

SetState(bs, b, st) == [bs EXCEPT ![b] = [state |-> st]]

\* Line 147 (line 243 in test_browser_connection): await browser.close() on the
\* normal path; it closes the browser, or raises inside the try.
CloseBrowser(c) ==
    /\ call[c].pc = "close"
    /\ \/ /\ browsers' = SetState(browsers, call[c].browser, "closed")
          /\ call' = [call EXCEPT ![c].pc = "exit_context"]
       \/ /\ call' = [call EXCEPT ![c].exc = [type |-> "Error", msg |-> "Connection closed"],
                                  ![c].pc = "exit_context"]
          /\ UNCHANGED browsers
    /\ UNCHANGED <<imgVars, uxVars, wVars, saVars>>

\* A result built without the title.
SuccessResultNoTitle(r) ==
    ScrapeResult(r.url, None, r.screenshot_b64, r.dom_content, None, r.status)

\* Lines 151-157: the ScrapeResult of the normal path, from the locals.
SuccessResult(r) ==
    ScrapeResult(r.url, r.title, r.screenshot_b64, r.dom_content, None, r.status)

\* A context manager that leaves the driver running.
ContextExitKeepsDriver(bs, b) == bs

\* Leaving async with async_playwright() stops the driver, which ends the
\* browser launched from it.
ContextExit(bs, b) == IF b = 0 THEN bs ELSE SetState(bs, b, "closed")

\* Leaving the async with block, by return or by exception, then the return
\* statement or the except clause that builds the result.
ExitContext(c) ==
    /\ call[c].pc = "exit_context"
    /\ browsers' = ContextExit(browsers, call[c].browser)
    /\ LET r == call[c]
       IN  call' = [call EXCEPT ![c] =
            IF r.tool = "test_browser_connection" THEN
                [r EXCEPT !.conn = IF r.exc = NoException THEN "success" ELSE "error",
                          !.pc = "done"]
            ELSE IF r.exc = NoException THEN
                [r EXCEPT !.result = SuccessResult(r), !.pc = "finally"]
            ELSE
                [r EXCEPT !.result = ErrorResult(r.url, r.opts, r.exc),
                          !.pc = "finally"]]
    /\ UNCHANGED <<imgVars, uxVars, wVars, saVars>>

\* Lines 171-176: finally: if browser: try: await browser.close() except: pass
Finally(c) ==
    /\ call[c].pc = "finally"
    /\ \/ /\ call[c].browser # 0
          /\ browsers' = SetState(browsers, call[c].browser, "closed")
       \/ UNCHANGED browsers
    /\ call' = [call EXCEPT ![c].pc = "done"]
    /\ UNCHANGED <<imgVars, uxVars, wVars, saVars>>

\* The caller has the result (or the exception); the slot is free again.
TakeResult(c) ==
    /\ call[c].pc = "done"
    /\ call' = [call EXCEPT ![c] = IdleCall]
    /\ UNCHANGED <<browsers, imgVars, uxVars, wVars, saVars>>

\* The invocation slots the server runs one call after another in.
Sequential == {1}

NextScrape ==
    \E c \in Sequential :
        \/ CallScrapeWebsite(c)
        \/ CallScrapeUrlSimple(c)
        \/ CallTakeScreenshot(c)
        \/ CallExtractPageContent(c)
        \/ CallTestBrowserConnection(c)
        \/ Launch(c)
        \/ Navigate(c)
        \/ Capture(c)
        \/ CloseBrowser(c)
        \/ ExitContext(c)
        \/ Finally(c)
        \/ TakeResult(c)

\* The arguments of the invocations that run at the same time.
ConcurrentArguments ==
    {<<"https://example.com", PyNone>>,
     <<"http://localhost:9/down",
       PyDict(Dict(None, Some(FALSE), None, None, None, Some(5000), None, {}, {}))>>}

\* scrape_website(url, options) called while another invocation may be in flight.
CallScrapeWebsiteConcurrent(c) ==
    /\ call[c].pc = "idle"
    /\ \E args \in ConcurrentArguments : Enter(c, "scrape_website", args[1], args[2])
    /\ UNCHANGED <<browsers, imgVars, uxVars, wVars, saVars>>

\* Two scrape_website invocations in flight at once: the event loop runs one
\* of them up to its next await, then either of them.
NextConcurrent ==
    \E c \in Calls :
        \/ CallScrapeWebsiteConcurrent(c)
        \/ Launch(c)
        \/ Navigate(c)
        \/ Capture(c)
        \/ CloseBrowser(c)
        \/ ExitContext(c)
        \/ Finally(c)
        \/ TakeResult(c)

-----------------------------------------------------------------------------
(* json.loads, for the JSON texts of the model: objects, arrays, strings   *)
(* without escapes, integers, true, false, null                            *)

JValue(t, n, str, items) == [t |-> t, n |-> n, s |-> str, items |-> items]
JNull == JValue("null", 0, "", <<>>)
JBool(b) == JValue(IF b THEN "true" ELSE "false", 0, "", <<>>)
JNum(n) == JValue("num", n, "", <<>>)
JStr(str) == JValue("str", 0, str, <<>>)
JArr(items) == JValue("arr", 0, "", items)
\* an object: its members in order, each <<key, value>>
JObj(members) == JValue("obj", 0, "", members)

Parsed(v, rest) == [ok |-> TRUE, v |-> v, rest |-> rest]
ParseFail == [ok |-> FALSE, v |-> JNull, rest |-> ""]

IsDigit(c) == c # "" /\ Find(Digits, c, 0) # -1

\* The digits at the head of s, as a number and a count.
RECURSIVE DigitRun(_, _, _)
DigitRun(s, acc, count) ==
    IF s # "" /\ IsDigit(CharAt(s, 1))
    THEN DigitRun(Tail(s), acc * 10 + Find(Digits, CharAt(s, 1), 0), count + 1)
    ELSE [n |-> acc, count |-> count, rest |-> s]

\* -?(0|[1-9][0-9]*), not followed by a fraction or an exponent
ParseNumber(s) ==
    LET neg  == StartsWith(s, "-")
        body == IF neg THEN Tail(s) ELSE s
        run  == DigitRun(body, 0, 0)
    IN  IF run.count = 0 THEN ParseFail
        ELSE IF run.count > 1 /\ CharAt(body, 1) = "0" THEN ParseFail
        ELSE IF run.rest # "" /\ CharAt(run.rest, 1) \in {".", "e", "E"} THEN ParseFail
        ELSE Parsed(JNum(IF neg THEN 0 - run.n ELSE run.n), run.rest)

\* "..." with no escape and no control character inside
ParseString(s) ==
    LET close == Find(s, "\"", 1)
        body  == Slice(s, 1, close)
    IN  IF ~StartsWith(s, "\"") \/ close = -1 THEN ParseFail
        ELSE IF Find(body, "\\", 0) # -1 \/ Find(body, "\n", 0) # -1 THEN ParseFail
        ELSE Parsed(JStr(body), SliceFrom(s, close + 1))

RECURSIVE ParseValue(_)
RECURSIVE ParseMembers(_, _)
RECURSIVE ParseItems(_, _)

ParseValue(text) ==
    LET s == LStrip(text)
    IN  IF s = "" THEN ParseFail
        ELSE IF StartsWith(s, "{") THEN
            LET inner == LStrip(Tail(s))
            IN  IF StartsWith(inner, "}") THEN Parsed(JObj(<<>>), Tail(inner))
                ELSE ParseMembers(inner, <<>>)
        ELSE IF StartsWith(s, "[") THEN
            LET inner == LStrip(Tail(s))
            IN  IF StartsWith(inner, "]") THEN Parsed(JArr(<<>>), Tail(inner))
                ELSE ParseItems(inner, <<>>)
        ELSE IF StartsWith(s, "\"") THEN ParseString(s)
        ELSE IF StartsWith(s, "true") THEN Parsed(JBool(TRUE), SliceFrom(s, 4))
        ELSE IF StartsWith(s, "false") THEN Parsed(JBool(FALSE), SliceFrom(s, 5))
        ELSE IF StartsWith(s, "null") THEN Parsed(JNull, SliceFrom(s, 4))
        ELSE ParseNumber(s)

\* key : value, then "," and more members, or "}"
ParseMembers(s, acc) ==
    LET key   == ParseString(s)
        colon == LStrip(key.rest)
        val   == ParseValue(Tail(colon))
        after == LStrip(val.rest)
    IN  IF ~key.ok \/ ~StartsWith(colon, ":") THEN ParseFail
        ELSE IF ~val.ok THEN ParseFail
        ELSE IF StartsWith(after, "}")
             THEN Parsed(JObj(Append(acc, <<key.v.s, val.v>>)), Tail(after))
        ELSE IF StartsWith(after, ",")
             THEN ParseMembers(LStrip(Tail(after)), Append(acc, <<key.v.s, val.v>>))
        ELSE ParseFail

\* value, then "," and more items, or "]"
ParseItems(s, acc) ==
    LET val   == ParseValue(s)
        after == LStrip(val.rest)
    IN  IF ~val.ok THEN ParseFail
        ELSE IF StartsWith(after, "]") THEN Parsed(JArr(Append(acc, val.v)), Tail(after))
        ELSE IF StartsWith(after, ",") THEN ParseItems(LStrip(Tail(after)), Append(acc, val.v))
        ELSE ParseFail

\* json.loads(text): ok is FALSE where it raises JSONDecodeError
JsonLoads(text) ==
    LET r == ParseValue(text)
    IN  IF r.ok /\ LStrip(r.rest) = "" THEN r ELSE ParseFail

\* dict.get(key, default): the last member with the key wins
HasKey(obj, key) == \E i \in 1..Len(obj.items) : obj.items[i][1] = key
Get(obj, key, default) ==
    IF HasKey(obj, key)
    THEN obj.items[Max({i \in 1..Len(obj.items) : obj.items[i][1] = key})][2]
    ELSE default

-----------------------------------------------------------------------------
(* analyze_ui_ux: src/mcp_python/playwright_mcp_server.py, lines 258-436   *)

\* Line 421: the length the fallback summary is cut to.
SummaryLimit == 500

\* The fence marker of the response. A TLA+ string literal cannot hold a
\* backquote, so the backquote is written ^ throughout the model.
Fence == "^^^"
JsonFence == "^^^json"

RECURSIVE Repeat(_, _)
Repeat(s, n) == IF n = 0 THEN "" ELSE s \o Repeat(s, n - 1)

\* class UIAnalysisResult
UIAnalysisResult(score, summary, issues, strengths, recommendations, error) ==
    [overall_score |-> score, summary |-> summary, issues |-> issues,
     strengths |-> strengths, priority_recommendations |-> recommendations,
     error |-> error]

NoKeyError == "OpenRouter API key not found. Please set OPENROUTER_API_KEY environment variable."
NoPackageError == "OpenAI package not installed. Install with: pip install openai"

\* Lines 384-392: the text handed to json.loads
ExtractJsonText(analysis_text) ==
    IF Find(analysis_text, JsonFence, 0) # -1 THEN
        LET json_start == Find(analysis_text, JsonFence, 0) + 7
            json_end   == Find(analysis_text, Fence, json_start)
        IN  Strip(Slice(analysis_text, json_start, json_end))
    ELSE
        LET json_start == Find(analysis_text, "{", 0)
            json_end   == RFind(analysis_text, "}") + 1
        IN  Slice(analysis_text, json_start, json_end)

IsStrList(v) == v.t = "arr" /\ \A i \in 1..Len(v.items) : v.items[i].t = "str"
StrList(v) == [i \in 1..Len(v.items) |-> v.items[i].s]

\* Lines 399-406: UIIssue(...) of one element of "issues"; pydantic wants
\* strings, and a list of strings or None for affected_elements.
IssueOk(d) ==
    /\ d.t = "obj"
    /\ \A k \in {"category", "severity", "title", "description", "recommendation"} :
          Get(d, k, JStr("")).t = "str"
    /\ LET a == Get(d, "affected_elements", JNull) IN a.t = "null" \/ IsStrList(a)
Issue(d) ==
    [category |-> Get(d, "category", JStr("general")).s,
     severity |-> Get(d, "severity", JStr("medium")).s,
     title |-> Get(d, "title", JStr("UI Issue")).s,
     description |-> Get(d, "description", JStr("")).s,
     recommendation |-> Get(d, "recommendation", JStr("")).s]

\* Lines 428-436: the result of the outer except clause
AnalysisError(msg) ==
    UIAnalysisResult(0, "Analysis failed due to error", <<>>, <<>>, <<>>,
                     Some("Analysis error: " \o msg))

\* A fallback that hands the whole text on.
FallbackResultUncut(analysis_text) ==
    UIAnalysisResult(50, analysis_text, <<>>,
        <<"Analysis completed but parsing failed">>,
        <<"Review the full analysis in the summary field">>,
        None)

\* Lines 416-425: the fallback for a response json.loads rejects
FallbackResult(analysis_text) ==
    UIAnalysisResult(50,
        IF Len(analysis_text) > SummaryLimit
        THEN Slice(analysis_text, 0, SummaryLimit) \o "..."
        ELSE analysis_text,
        <<>>,
        <<"Analysis completed but parsing failed">>,
        <<"Review the full analysis in the summary field">>,
        None)

\* Lines 394-414: the result built from the parsed JSON; anything that is not
\* of the expected shape raises (AttributeError, TypeError, ValidationError)
\* and ends in the outer except clause.
StructuredResult(data) ==
    IF data.t # "obj" THEN AnalysisError("object has no attribute 'get'")
    ELSE
        LET issues  == Get(data, "issues", JArr(<<>>))
            score   == Get(data, "overall_score", JNum(50))
            summary == Get(data, "summary", JStr("UI analysis completed"))
            strengths == Get(data, "strengths", JArr(<<>>))
            recs    == Get(data, "priority_recommendations", JArr(<<>>))
        IN  IF issues.t # "arr" THEN AnalysisError("issues is not iterable")
            ELSE IF \E i \in 1..Len(issues.items) : ~IssueOk(issues.items[i])
                 THEN AnalysisError("validation error for UIIssue")
            ELSE IF score.t # "num" \/ summary.t # "str" \/ ~IsStrList(strengths)
                       \/ ~IsStrList(recs)
                 THEN AnalysisError("validation error for UIAnalysisResult")
            ELSE UIAnalysisResult(score.n, summary.s,
                    [i \in 1..Len(issues.items) |-> Issue(issues.items[i])],
                    StrList(strengths), StrList(recs), None)

\* Lines 381-425: from the response text to the result
ParseAnalysis(analysis_text) ==
    LET loaded == JsonLoads(ExtractJsonText(analysis_text))
    IN  IF loaded.ok THEN StructuredResult(loaded.v) ELSE FallbackResult(analysis_text)

\* The body of analyze_ui_ux: installed is whether import openai succeeds,
\* api what client.chat.completions.create does.
AnalyzeUiUx(e, installed, api) ==
    IF ~Truthy(e.OPENROUTER_API_KEY) THEN
        [result |-> UIAnalysisResult(0, "Analysis failed", <<>>, <<>>, <<>>, Some(NoKeyError)),
         text |-> None, events |-> <<"getenv">>]
    ELSE IF ~installed THEN
        [result |-> UIAnalysisResult(0, "Analysis failed", <<>>, <<>>, <<>>,
                                     Some(NoPackageError)),
         text |-> None, events |-> <<"getenv", "import">>]
    ELSE IF api.kind = "raise" THEN
        [result |-> AnalysisError(api.val), text |-> None,
         events |-> <<"getenv", "import", "api_request">>]
    ELSE IF api.kind = "none" THEN
        [result |-> AnalysisError("object of type 'NoneType' has no len()"), text |-> None,
         events |-> <<"getenv", "import", "api_request">>]
    ELSE
        [result |-> ParseAnalysis(api.val), text |-> Some(api.val),
         events |-> <<"getenv", "import", "api_request">>]

\* The response texts of the model.
LongProse == Repeat("The layout is crowded. ", 22)
ResponseTexts ==
    {"The page looks fine.",
     "",
     "Use {braces} sparingly",
     "{\"overall_score\": 85, \"summary\": \"Clean layout\"}",
     "Here you go: {\"overall_score\": 70, \"issues\": [{\"title\": \"Low contrast\", \"severity\": \"high\"}], \"strengths\": [\"Spacing\"]} Done.",
     "{}",
     "^^^json\n{\"overall_score\": 0, \"summary\": \"Poor\", \"priority_recommendations\": [\"Fix nav\"]}\n^^^",
     "^^^json\n{\"summary\": \"cut off",
     "^^^json\n[1, 2]\n^^^",
     "{\"overall_score\": \"high\"}",
     "{\"overall_score\": 120,}",
     "Result: {\"overall_score\": 101}",
     "{\"overall_score\": -5, \"summary\": \"bad\"}",
     "^^^json {\"issues\": \"none\"} ^^^",
     "^^^\n{\"overall_score\": 60}\n^^^",
     "{\"a\": {\"b\": }}",
     "{\"summary\": \"x\"} and {\"summary\": \"y\"}",
     "^^^json\n\n^^^",
     LongProse,
     Slice(LongProse, 0, SummaryLimit),
     Slice(LongProse, 0, SummaryLimit + 1)}

UxApiOutcomes ==
    {[kind |-> "text", val |-> t] : t \in ResponseTexts}
    \cup {[kind |-> "none", val |-> ""], [kind |-> "raise", val |-> "Connection error."]}

UxIdle ==
    /\ ux_pc = "idle"
    /\ ux_call = [screenshot_b64 |-> "", dom_content |-> None, installed |-> TRUE]
    /\ ux_text = None
    /\ ux_result = UIAnalysisResult(0, "", <<>>, <<>>, <<>>, None)
    /\ ux_events = <<>>

InitAnalyze ==
    /\ env \in {e \in EnvValues : e.OPENAI_API_KEY = None}
    /\ client = "unloaded"
    /\ ImgIdle
    /\ UxIdle

\* The tool analyze_ui_ux(screenshot_b64, dom_content).
CallAnalyzeUiUx ==
    /\ ux_pc = "idle"
    /\ \E shot \in {"iVBORw==", ""}, dom \in {None, Some(""), Some(PageDom)},
          installed \in BOOLEAN :
       \E api \in (IF Truthy(env.OPENROUTER_API_KEY) /\ installed
                   THEN UxApiOutcomes ELSE {[kind |-> "none", val |-> ""]}) :
          LET out == AnalyzeUiUx(env, installed, api)
          IN  /\ ux_call' = [screenshot_b64 |-> shot, dom_content |-> dom,
                             installed |-> installed]
              /\ ux_text' = out.text
              /\ ux_result' = out.result
              /\ ux_events' = out.events
    /\ ux_pc' = "returned"
    /\ UNCHANGED <<imgVars, scrVars, wVars, saVars>>

\* The caller takes the result.
UxNextCall ==
    /\ ux_pc = "returned"
    /\ ux_pc' = "idle"
    /\ ux_call' = [screenshot_b64 |-> "", dom_content |-> None, installed |-> TRUE]
    /\ ux_text' = None
    /\ ux_result' = UIAnalysisResult(0, "", <<>>, <<>>, <<>>, None)
    /\ ux_events' = <<>>
    /\ UNCHANGED <<imgVars, scrVars, wVars, saVars>>

NextAnalyze == CallAnalyzeUiUx \/ UxNextCall

\* The analysis tools of the two servers, one call at a time.
ImageToolCall ==
    /\ ux_pc = "idle"
    /\ \/ CallAnalyzeUiScreenshot
       \/ CallAnalyzeUiFromPath
       \/ CallAnalyzeUiFromBase64

UxToolCall ==
    /\ img_pc = "idle"
    /\ CallAnalyzeUiUx

NextKeyCheck ==
    \/ LoadModule
    \/ ImageToolCall
    \/ ImgNextCall
    \/ UxToolCall
    \/ UxNextCall

-----------------------------------------------------------------------------
(* scrape_and_analyze_ui: src/mcp_python/playwright_mcp_server.py, lines    *)
(* 439-489. Its scrape runs in invocation slot 1.                          *)

\* The record the tool returns.
Combined(scrape_result, ui_analysis, error) ==
    [scrape_result |-> scrape_result, ui_analysis |-> ui_analysis, error |-> error]

\* A call the tool makes, with the arguments analyze_ui_ux is given.
Made(fn, screenshot_b64, dom_content) ==
    [fn |-> fn, screenshot_b64 |-> screenshot_b64, dom_content |-> dom_content]

\* The viewport arguments: two sizes, and a width that is no integer.
Viewports ==
    {[width |-> 1920, height |-> 1080, mistyped |-> {}],
     [width |-> 375, height |-> 812, mistyped |-> {}],
     [width |-> 0, height |-> 1080, mistyped |-> {"viewport_width"}]}

SaIdle ==
    /\ sa_pc = "idle"
    /\ sa_scrape = NoResult
    /\ sa_events = <<>>
    /\ sa_result = Combined(None, None, None)

\* Lines 451-460: the options, then scrape_website(url, scrape_options).
CallScrapeAndAnalyzeUi ==
    /\ sa_pc = "idle"
    /\ call[1].pc = "idle"
    /\ \E url \in Urls, v \in Viewports :
          Enter(1, "scrape_website", url,
                PyDict(Dict(Some(TRUE), Some(TRUE), None, Some(v.width), Some(v.height),
                            None, None, v.mistyped, {})))
    /\ sa_pc' = "scraping"
    /\ sa_events' = <<Made("scrape_website", "", None)>>
    /\ UNCHANGED <<sa_scrape, sa_result, browsers, imgVars, uxVars, wVars>>

\* A tool that looks at the screenshot alone.
AfterScrapeIgnoringError(scrape_result) ==
    IF Truthy(scrape_result.screenshot) THEN "analyze" ELSE "return"

\* Lines 462-471: an error ends the call; the analysis is made if there is a
\* screenshot.
AfterScrape(scrape_result) ==
    IF Truthy(scrape_result.error) THEN "failed"
    ELSE IF Truthy(scrape_result.screenshot) THEN "analyze" ELSE "return"

\* Lines 460-489: scrape_website has returned or raised.
ScrapeReturned ==
    /\ sa_pc = "scraping"
    /\ call[1].pc = "done"
    /\ call' = [call EXCEPT ![1] = IdleCall]
    /\ IF call[1].raised # "" THEN
          /\ sa_result' = Combined(None, None,
                              Some("Combined operation failed: " \o call[1].raised))
          /\ sa_pc' = "returned"
          /\ UNCHANGED sa_scrape
       ELSE
          LET scrape_result == call[1].result
              next == AfterScrape(scrape_result)
          IN  /\ sa_scrape' = scrape_result
              /\ sa_pc' = IF next = "analyze" THEN "analyze" ELSE "returned"
              /\ sa_result' =
                    IF next = "failed"
                    THEN Combined(Some(scrape_result), None,
                            Some("Scraping failed: " \o Val(scrape_result.error)))
                    ELSE IF next = "return"
                    THEN Combined(Some(scrape_result), None, None)
                    ELSE sa_result
    /\ UNCHANGED <<sa_events, browsers, imgVars, uxVars, wVars>>

\* Lines 470-480: analyze_ui_ux with the screenshot and the DOM of the scrape;
\* it returns a result on every path.
AnalyzeScrape ==
    /\ sa_pc = "analyze"
    /\ \E installed \in BOOLEAN :
       \E api \in (IF Truthy(env.OPENROUTER_API_KEY) /\ installed
                   THEN UxApiOutcomes ELSE {[kind |-> "none", val |-> ""]}) :
          sa_result' = Combined(Some(sa_scrape),
                                Some(AnalyzeUiUx(env, installed, api).result), None)
    /\ sa_events' = Append(sa_events,
                        Made("analyze_ui_ux", Val(sa_scrape.screenshot), sa_scrape.dom))
    /\ sa_pc' = "returned"
    /\ UNCHANGED <<sa_scrape, scrVars, imgVars, uxVars, wVars>>

\* The caller takes the record.
SaNextCall ==
    /\ sa_pc = "returned"
    /\ sa_pc' = "idle"
    /\ sa_scrape' = NoResult
    /\ sa_events' = <<>>
    /\ sa_result' = Combined(None, None, None)
    /\ UNCHANGED <<scrVars, imgVars, uxVars, wVars>>

\* The steps of the scrape inside the tool leave the tool's own state alone.
ScrapeStep ==
    /\ sa_pc = "scraping"
    /\ \/ Launch(1)
       \/ Navigate(1)
       \/ Capture(1)
       \/ CloseBrowser(1)
       \/ ExitContext(1)
       \/ Finally(1)

NextCombined ==
    \/ CallScrapeAndAnalyzeUi
    \/ ScrapeStep
    \/ ScrapeReturned
    \/ AnalyzeScrape
    \/ SaNextCall

-----------------------------------------------------------------------------
(* The watcher: src/mcp_python/pixelpolish_watcher.py                      *)

Timestamps == {"2025-06-01T10:00:00Z", "2025-06-01T10:05:00Z"}

\* What GET /dashboard gives: an exception, a status other than 200, or a JSON
\* body with success, analyzedAt, filename and data (well formed or not).
Dashboard(kind, success, analyzedAt, filename, data_ok) ==
    [kind |-> kind, success |-> success, analyzedAt |-> analyzedAt,
     filename |-> filename, data_ok |-> data_ok]

NoPoll == Dashboard("none", FALSE, None, None, TRUE)

DashboardAnswers ==
    {Dashboard("exception", FALSE, None, None, TRUE),
     Dashboard("status500", FALSE, None, None, TRUE),
     Dashboard("json", FALSE, Some("2025-06-01T10:00:00Z"), Some("index.html"), TRUE)}
    \cup
    {Dashboard("json", TRUE, t, f, ok) :
        t \in {None} \cup {Some(x) : x \in Timestamps},
        f \in {None, Some(""), Some("index.html")},
        ok \in BOOLEAN}

\* get_latest_analysis: the dict, or None
HasAnalysis(answer) == answer.kind = "json" /\ answer.success

\* A comparison that looks at the filename alone.
IsNewAnalysisAnyTime(analyzed_at, last, filename) == Truthy(filename)

\* A comparison that looks at the timestamp alone.
IsNewAnalysisAnyFile(analyzed_at, last, filename) == analyzed_at # last

\* Line 203: analyzed_at != self.last_analysis_time and filename
IsNewAnalysis(analyzed_at, last, filename) == analyzed_at # last /\ Truthy(filename)

\* Lines 142-149: the placeholder ai_analysis, its scores left out
AiAnalysis ==
    [visual_score |-> 65,
     priority_fixes |-> <<[element |-> ".hero-section", priority |-> "high"]>>]

\* Line 220: [f for f in ai_analysis['priority_fixes'] if f.get('priority') == 'high']
HighPriority(fixes) == SelectSeq(fixes, LAMBDA f : f.priority = "high")

\* A loop that analyzes whatever take_screenshot returned.
AfterScreenshotUnchecked(screenshot_b64) == "analyze"

\* Line 209: if screenshot_b64:
AfterScreenshot(screenshot_b64) == IF Truthy(screenshot_b64) THEN "analyze" ELSE "record"

\* Lines 220-223: apply_fixes is called when the filtered list is not empty
AfterAnalysis(ai_analysis) ==
    IF HighPriority(ai_analysis.priority_fixes) # <<>> THEN "apply" ELSE "record"

\* What GET /health gives: a response with its status, or an exception.
HealthAnswers ==
    {[kind |-> "response", status |-> 200], [kind |-> "response", status |-> 503],
     [kind |-> "exception", status |-> 0]}

\* A health check that takes any answer for a running server.
CheckServerHealthAnyAnswer(answer) == TRUE

\* Lines 49-57: check_server_health: response.status == 200, False on an exception
CheckServerHealth(answer) == answer.kind = "response" /\ answer.status = 200

InitWatcher ==
    /\ w_pc = "start"
    /\ last_analysis_time = None
    /\ w_browser = "none"
    /\ w_playwright = "unset"
    /\ w_poll = NoPoll
    /\ w_steps = <<>>
    /\ w_screenshot = None
    /\ w_ai = None
    /\ w_exit = ""
    /\ w_last_trigger = None
    /\ w_health_checks = 0
    /\ w_health = None

\* Lines 186-191: the health check; the loop is entered only when it succeeds.
HealthCheck ==
    /\ w_pc = "start"
    /\ w_health_checks' = w_health_checks + 1
    /\ \E answer \in HealthAnswers :
          /\ w_health' = Some(answer)
          /\ w_pc' = IF CheckServerHealth(answer) THEN "poll" ELSE "returned"
          /\ w_exit' = IF CheckServerHealth(answer) THEN "" ELSE "unhealthy"
    /\ UNCHANGED <<last_analysis_time, w_browser, w_playwright, w_poll, w_steps,
                   w_last_trigger, w_screenshot, w_ai, imgVars, scrVars, uxVars, saVars>>

\* Line 196: analysis = await self.get_latest_analysis()
Poll ==
    /\ w_pc = "poll"
    /\ \E answer \in DashboardAnswers :
          /\ w_poll' = answer
          /\ w_last_trigger' =
                IF HasAnalysis(answer) /\ w_last_trigger # None
                   /\ answer.analyzedAt # Val(w_last_trigger)
                THEN None ELSE w_last_trigger
    /\ w_steps' = <<>>
    /\ w_screenshot' = None
    /\ w_ai' = None
    /\ w_pc' = "compare"
    /\ UNCHANGED <<last_analysis_time, w_browser, w_playwright, w_exit, w_health_checks,
                   w_health,
                   imgVars, scrVars, uxVars, saVars>>

\* Lines 198-207: the pipeline starts for a new analysis; take_screenshot
\* starts the browser first when there is none.
Compare ==
    /\ w_pc = "compare"
    /\ IF HasAnalysis(w_poll)
          /\ IsNewAnalysis(w_poll.analyzedAt, last_analysis_time, w_poll.filename)
       THEN /\ w_pc' = IF w_browser # "open" THEN "start_browser" ELSE "screenshot"
            /\ w_steps' = <<"take_screenshot">>
            /\ w_last_trigger' = Some(w_poll.analyzedAt)
       ELSE /\ w_pc' = "sleep"
            /\ UNCHANGED <<w_steps, w_last_trigger>>
    /\ UNCHANGED <<last_analysis_time, w_browser, w_playwright, w_poll, w_exit,
                   w_health_checks, w_screenshot, w_ai, w_health,
                   imgVars, scrVars, uxVars, saVars>>

\* Lines 75-76 and 35-39: start_browser, called outside the try of
\* take_screenshot: starting the driver or launching the browser may raise,
\* and the exception leaves the loop through except Exception (line 232).
StartBrowser ==
    /\ w_pc = "start_browser"
    /\ \/ /\ w_playwright' = "started"
          /\ w_browser' = "open"
          /\ w_pc' = "screenshot"
          /\ UNCHANGED w_exit
       \/ /\ w_playwright' = "started"
          /\ w_pc' = "finally"
          /\ w_exit' = "error"
          /\ UNCHANGED w_browser
       \/ /\ w_pc' = "finally"
          /\ w_exit' = "error"
          /\ UNCHANGED <<w_browser, w_playwright>>
    /\ UNCHANGED <<last_analysis_time, w_poll, w_steps, w_last_trigger, w_health_checks,
                   w_screenshot, w_ai, w_health,
                   imgVars, scrVars, uxVars, saVars>>

\* Lines 78-108: the page, the navigation, the screenshot and its file; a
\* failure is logged and gives None, and line 209 then skips the analysis.
Screenshot ==
    /\ w_pc = "screenshot"
    /\ \E shot \in {None, Some(B64Encode(ScreenshotBytes))} :
          /\ w_screenshot' = shot
          /\ w_pc' = AfterScreenshot(shot)
    /\ UNCHANGED <<last_analysis_time, w_browser, w_playwright, w_poll, w_steps, w_exit,
                   w_last_trigger, w_health_checks, w_ai, w_health,
                   imgVars, scrVars, uxVars, saVars>>

\* Lines 110-144 and 211: analyze_with_ai; .get on a "data" that is no dict
\* raises AttributeError, which leaves the loop through except Exception.
AnalyzeWithAi ==
    /\ w_pc = "analyze"
    /\ w_steps' = Append(w_steps, "analyze_with_ai")
    /\ IF w_poll.data_ok
       THEN /\ w_ai' = Some(AiAnalysis)
            /\ w_pc' = AfterAnalysis(AiAnalysis)
            /\ UNCHANGED w_exit
       ELSE /\ w_pc' = "finally"
            /\ w_exit' = "error"
            /\ UNCHANGED w_ai
    /\ UNCHANGED <<last_analysis_time, w_browser, w_playwright, w_poll, w_last_trigger,
                   w_health_checks, w_screenshot, w_health,
                   imgVars, scrVars, uxVars, saVars>>

\* Lines 220-223 and 146-180: the placeholder analysis always has one fix of
\* priority high, so apply_fixes runs; it returns True or False.
ApplyFixes ==
    /\ w_pc = "apply"
    /\ w_steps' = Append(w_steps, "apply_fixes")
    /\ w_pc' = "record"
    /\ UNCHANGED <<last_analysis_time, w_browser, w_playwright, w_poll, w_exit,
                   w_last_trigger, w_health_checks, w_screenshot, w_ai, w_health,
                   imgVars, scrVars, uxVars, saVars>>

\* Line 225: self.last_analysis_time = analyzed_at
Record ==
    /\ w_pc = "record"
    /\ last_analysis_time' = w_poll.analyzedAt
    /\ w_pc' = "sleep"
    /\ UNCHANGED <<w_browser, w_playwright, w_poll, w_steps, w_exit, w_last_trigger,
                   w_health_checks, w_screenshot, w_ai, w_health,
                   imgVars, scrVars, uxVars, saVars>>

\* Line 228: await asyncio.sleep(2), then the next iteration.
Sleep ==
    /\ w_pc = "sleep"
    /\ w_pc' = "poll"
    /\ UNCHANGED <<last_analysis_time, w_browser, w_playwright, w_poll, w_steps, w_exit,
                   w_last_trigger, w_health_checks, w_screenshot, w_ai, w_health,
                   imgVars, scrVars, uxVars, saVars>>

\* The positions at which the loop is suspended in an await: the dashboard
\* fetch, the browser start, the screenshot, apply_fixes and the sleep.
AwaitPoints == {"poll", "start_browser", "screenshot", "apply", "sleep"}

\* An interrupt from outside while the loop is suspended: the exception is
\* raised at the await, and the finally clause runs.
Interrupt ==
    /\ w_pc \in AwaitPoints
    /\ w_pc' = "finally"
    /\ w_exit' = "interrupt"
    /\ UNCHANGED <<last_analysis_time, w_browser, w_playwright, w_poll, w_steps,
                   w_last_trigger, w_health_checks, w_screenshot, w_ai, w_health,
                   imgVars, scrVars, uxVars, saVars>>

\* Lines 43-44: if self.browser: await self.browser.close()
ClosedBrowser(browser) == IF browser = "open" THEN "closed" ELSE browser

\* A stop_browser that leaves the driver alone.
DriverLeftRunning(playwright) == playwright

\* Lines 45-46: if hasattr(self, 'playwright'): await self.playwright.stop()
StoppedDriver(playwright) == IF playwright = "started" THEN "stopped" ELSE playwright

\* Lines 234-235 and 41-47: finally: await self.stop_browser()
StopBrowser ==
    /\ w_pc = "finally"
    /\ w_browser' = ClosedBrowser(w_browser)
    /\ w_playwright' = StoppedDriver(w_playwright)
    /\ w_pc' = "returned"
    /\ UNCHANGED <<last_analysis_time, w_poll, w_steps, w_exit, w_last_trigger,
                   w_health_checks, w_screenshot, w_ai, w_health,
                   imgVars, scrVars, uxVars, saVars>>

NextWatcher ==
    \/ HealthCheck
    \/ Poll
    \/ Compare
    \/ StartBrowser
    \/ Screenshot
    \/ AnalyzeWithAi
    \/ ApplyFixes
    \/ Record
    \/ Sleep
    \/ Interrupt
    \/ StopBrowser

-----------------------------------------------------------------------------
(* The specifications: one per server, the other server's state at rest    *)

RestImage ==
    /\ env = [OPENROUTER_API_KEY |-> None, OPENAI_API_KEY |-> None]
    /\ client = "unloaded"
    /\ ImgIdle

InitImageServer == InitImage /\ InitScrape /\ UxIdle /\ InitWatcher /\ SaIdle

SpecImage == InitImageServer /\ [][NextImage]_vars

InitScrapeServer == RestImage /\ InitScrape /\ UxIdle /\ InitWatcher /\ SaIdle

SpecScrape == InitScrapeServer /\ [][NextScrape]_vars

SpecConcurrent == InitScrapeServer /\ [][NextConcurrent]_vars

InitAnalyzeTool == InitAnalyze /\ InitScrape /\ InitWatcher /\ SaIdle

SpecAnalyze == InitAnalyzeTool /\ [][NextAnalyze]_vars

SpecKeyCheck == InitImageServer /\ [][NextKeyCheck]_vars

InitCombined == InitAnalyze /\ InitScrape /\ InitWatcher /\ SaIdle

SpecCombined == InitCombined /\ [][NextCombined]_vars

InitWatcherProcess == RestImage /\ InitScrape /\ UxIdle /\ InitWatcher /\ SaIdle

SpecWatcher == InitWatcherProcess /\ [][NextWatcher]_vars

-----------------------------------------------------------------------------
(* Claims about the UI analysis server, checked under SpecImage            *)

\* The MIME type a data URL declares: the text between "data:" and ";base64,".
DeclaredMime(u) ==
    LET m == Find(u, ";base64,", 5)
    IN  IF StartsWith(u, "data:") /\ m >= 5 THEN Some(Slice(u, 5, m)) ELSE None

PayloadOf(u) == SliceFrom(u, Find(u, ";base64,", 5) + 8)

\* The MIME type of a named image format; PNG when the format is not a known one.
FormatMime(fmt) ==
    CASE fmt = "png"             -> "image/png"
      [] fmt \in {"jpg", "jpeg"} -> "image/jpeg"
      [] fmt = "gif"             -> "image/gif"
      [] fmt = "webp"            -> "image/webp"
      [] OTHER                   -> "image/png"

IsDataUrl(s) == StartsWith(s, "data:image/")

\* The input shapes the routine supports.
SupportedShape(image) ==
    \/ image.type \in {"str", "ImageContent"}
    \/ image.type = "ImageInput" /\ Truthy(image.base64_data)
    \/ image.type = "ImageInput" /\ ~Truthy(image.base64_data)
         /\ Truthy(image.file_path) /\ Val(image.file_path) \in ExistingPaths

\* The MIME type of the source of a supported input.
SourceMime(image) ==
    IF image.type = "str" THEN
        IF IsDataUrl(image.s) THEN Val(DeclaredMime(image.s)) ELSE "image/png"
    ELSE IF image.type = "ImageContent" THEN
        IF image.mimeType = "" THEN "image/png" ELSE image.mimeType
    ELSE IF Truthy(image.base64_data) THEN
        IF IsDataUrl(Val(image.base64_data)) THEN Val(DeclaredMime(Val(image.base64_data)))
        ELSE FormatMime(Lower(OrElse(image.format_hint, "")))
    ELSE
        LET name == PathName(Val(image.file_path))
            dot  == RFind(name, ".")
        IN  FormatMime(IF dot = -1 THEN "" ELSE Lower(SliceFrom(name, dot + 1)))

NormalizeReturned == img_pc = "returned" /\ img_call.tool = "normalize_base64_image"

\* C1: for every supported input shape normalize_base64_image returns a
\* well-formed data URL data:<mime>;base64,<payload> whose MIME type is that of
\* the source format, or image/png when the format is unknown or unrecognized.
C1_DataUrlMimeMatchesSource ==
    (NormalizeReturned /\ SupportedShape(img_call.image)) =>
        /\ img_result.kind = "return"
        /\ DeclaredMime(img_result.val) # None
        /\ Val(DeclaredMime(img_result.val)) = SourceMime(img_call.image)

\* C5: with OPENROUTER_API_KEY unset nothing raises: the module loads, and each
\* of the three tools returns the fixed missing-key sentence for every input.
C5_MissingKeyNeverRaises ==
    env.OPENROUTER_API_KEY = None =>
        /\ client # "raised"
        /\ (img_pc = "returned" /\ img_call.tool # "normalize_base64_image") =>
               img_result = Return(MissingKeyMessage)

PngFileCall ==
    /\ NormalizeReturned
    /\ img_call.image.type = "ImageInput"
    /\ ~Truthy(img_call.image.base64_data)
    /\ Truthy(img_call.image.file_path)
    /\ Val(img_call.image.file_path) \in ExistingPaths
    /\ LET p == Lower(Val(img_call.image.file_path))
       IN  Len(p) > 4 /\ SliceFrom(p, Len(p) - 4) = ".png"

\* C7: for an ImageInput whose file_path names an existing .png file the result
\* is "data:image/png;base64," followed by a payload that decodes to exactly the
\* bytes of the file, so the decoded length is the file's length.
C7_PngFileRoundTrip ==
    PngFileCall =>
        /\ img_result.kind = "return"
        /\ StartsWith(img_result.val, "data:image/png;base64,")
        /\ B64Decode(SliceFrom(img_result.val, 22)) = Val(fs_read)
        /\ Len(B64Decode(SliceFrom(img_result.val, 22))) = Len(Val(fs_read))

\* C7 witness: a .png file of two bytes (one padding character) was normalized.
C7_Witness == PngFileCall /\ Len(Val(fs_read)) = 2

\* A call, with an ImageInput, of normalize_base64_image or of a tool over it.
InputCall(tools) ==
    /\ img_pc = "returned"
    /\ img_call.tool \in tools
    /\ img_call.image.type = "ImageInput"

AnalysisTools == {"analyze_ui_screenshot", "analyze_ui_from_path", "analyze_ui_from_base64"}

HasBase64 == Truthy(img_call.image.base64_data)
HasFile == ~HasBase64 /\ Truthy(img_call.image.file_path)
HasUrl == ~HasBase64 /\ ~Truthy(img_call.image.file_path) /\ Truthy(img_call.image.url)
HasNothing ==
    ~HasBase64 /\ ~Truthy(img_call.image.file_path) /\ ~Truthy(img_call.image.url)
FileMissing == HasFile /\ Val(img_call.image.file_path) \notin ExistingPaths

ErrorPrefix == "Error analyzing UI screenshot: "

\* C20: an ImageInput is resolved by base64_data first (file_path and url are
\* then ignored and no file is read), then file_path (the file is read; a
\* missing file raises ValueError), then url (NotImplementedError); with none
\* set it raises ValueError. Through analyze_ui_screenshot each of these
\* errors comes back as a string that starts "Error analyzing UI screenshot: ".
C20_InputPrecedence ==
    /\ InputCall({"normalize_base64_image"}) =>
          /\ HasBase64 =>
                /\ img_result.kind = "return"
                /\ fs_read = None
                /\ \/ img_result.val = Val(img_call.image.base64_data)
                   \/ PayloadOf(img_result.val) = Val(img_call.image.base64_data)
          /\ (HasFile /\ ~FileMissing) =>
                /\ img_result.kind = "return"
                /\ fs_read # None
                /\ B64Decode(PayloadOf(img_result.val)) = Val(fs_read)
          /\ FileMissing => img_result.kind = "raise" /\ img_result.type = "ValueError"
          /\ HasUrl => img_result.kind = "raise" /\ img_result.type = "NotImplementedError"
          /\ HasNothing => img_result.kind = "raise" /\ img_result.type = "ValueError"
    /\ (InputCall(AnalysisTools) /\ Truthy(env.OPENROUTER_API_KEY)
        /\ (FileMissing \/ HasUrl \/ HasNothing)) =>
          /\ img_result.kind = "return"
          /\ StartsWith(img_result.val, ErrorPrefix)
          /\ "api_request" \notin {img_events[i] : i \in 1..Len(img_events)}

\* C20 witness: base64_data, file_path and url were all given, and the result
\* is the data URL of the base64_data.
C20_Witness ==
    /\ InputCall({"normalize_base64_image"})
    /\ img_call.image.base64_data = Some("QUJD")
    /\ img_call.image.file_path = Some("c.jpg")
    /\ Truthy(img_call.image.url)
    /\ img_result.kind = "return"
    /\ PayloadOf(img_result.val) = "QUJD"

\* analyze_ui_screenshot returned the error of an input that has only a url.
C20_UrlThroughTool ==
    /\ InputCall({"analyze_ui_screenshot"})
    /\ HasUrl
    /\ img_result = Return(ErrorPrefix \o "URL-based image input not yet implemented")

-----------------------------------------------------------------------------
(* Claims about the scraping tools, checked under SpecScrape               *)

ScrapeTools == {"scrape_website", "scrape_url_simple", "take_screenshot",
                "extract_page_content"}

\* The invocation in slot c has ended by returning a ScrapeResult.
ReturnedScrape(c) ==
    call[c].pc = "done" /\ call[c].tool \in ScrapeTools /\ call[c].raised = ""

PayloadUnset(r) == r.title = None /\ r.screenshot = None /\ r.dom = None
PayloadSet(r) == r.title # None /\ r.screenshot # None /\ r.dom # None

\* C2 as stated: in every returned ScrapeResult a non-empty error means title,
\* screenshot and dom are all unset, and an unset error means they are all set.
C2_ErrorXorPayload ==
    \A c \in Calls :
        ReturnedScrape(c) =>
            /\ Truthy(call[c].result.error) => PayloadUnset(call[c].result)
            /\ call[c].result.error = None => PayloadSet(call[c].result)

\* C2 amended: a non-empty error means title, screenshot and dom are all unset;
\* an unset error means the title is set, the screenshot is set exactly when the
\* screenshot option is on and the dom exactly when the dom option is on.
C2_ErrorXorRequestedPayload ==
    \A c \in Calls :
        ReturnedScrape(c) =>
            /\ call[c].result.error = None \/ Truthy(call[c].result.error)
            /\ Truthy(call[c].result.error) => PayloadUnset(call[c].result)
            /\ call[c].result.error = None =>
                  /\ call[c].result.title # None
                  /\ (call[c].result.screenshot # None) <=> call[c].opts.screenshot
                  /\ (call[c].result.dom # None) <=> call[c].opts.dom

\* C2 witness: a successful take_screenshot, whose result has a screenshot and no dom.
C2_Witness ==
    \E c \in Calls :
        /\ ReturnedScrape(c)
        /\ call[c].tool = "take_screenshot"
        /\ call[c].result.error = None
        /\ call[c].result.screenshot # None
        /\ call[c].result.dom = None

\* C4: no tool invocation ends by raising.
C4_NoToolRaises ==
    \A c \in Calls : call[c].pc = "done" => call[c].raised = ""

\* C6: when an invocation of scrape_website or test_browser_connection has
\* ended, the browser it launched is closed, whatever the exit path; and a
\* launch always gives a browser no earlier invocation had.
BrowserClosedOnReturn ==
    \A c \in Calls :
        (call[c].pc = "done" /\ call[c].browser # 0) =>
            browsers[call[c].browser].state = "closed"

NoBrowserLeftOpen ==
    (\A c \in Calls : call[c].pc \in {"idle", "done"}) =>
        \A b \in 1..Len(browsers) : browsers[b].state = "closed"

LaunchIsFresh ==
    \A c \in Calls :
        (call'[c].browser # 0 /\ call[c].browser # call'[c].browser) =>
            /\ call[c].browser = 0
            /\ call'[c].browser \notin 1..Len(browsers)
            /\ \A d \in Calls \ {c} : call'[d].browser # call'[c].browser

C6_BrowserClosedOnEveryPath ==
    [](BrowserClosedOnReturn /\ NoBrowserLeftOpen) /\ [][LaunchIsFresh]_vars

\* C6 witness: an invocation that launched a browser ended on an error path
\* (its own close on the normal path was never reached).
C6_Witness ==
    \E c \in Calls :
        /\ call[c].pc = "done"
        /\ call[c].browser # 0
        /\ call[c].exc # NoException
        /\ browsers[call[c].browser].state = "closed"

\* The result of scrape_website for the default options, given what the
\* browser did in this invocation.
DefaultScrapeResult(r) ==
    IF r.exc = NoException
    THEN ScrapeResult(r.url, r.title, Some(B64Encode(ScreenshotBytes)), Some(PageDom),
                      None, r.status)
    ELSE ErrorResult(r.url, DefaultOptions, r.exc)

\* C10: scrape_url_simple(url) returns what scrape_website returns for the
\* same url with the default options, for every navigation outcome.
C10_SimpleIsDefaultScrape ==
    \A c \in Calls :
        (call[c].pc = "done" /\ call[c].tool = "scrape_url_simple") =>
            /\ call[c].raised = ""
            /\ call[c].opts = DefaultOptions
            /\ call[c].result = DefaultScrapeResult(call[c])

\* C15: a result never carries a payload the caller asked to skip: no dom from
\* take_screenshot, no screenshot from extract_page_content, and from any tool
\* no screenshot when the screenshot option is off and no dom when the dom
\* option is off, with or without an error.
C15_NoSkippedPayload ==
    \A c \in Calls :
        ReturnedScrape(c) =>
            /\ call[c].tool = "take_screenshot" => call[c].result.dom = None
            /\ call[c].tool = "extract_page_content" => call[c].result.screenshot = None
            /\ ~call[c].opts.screenshot => call[c].result.screenshot = None
            /\ ~call[c].opts.dom => call[c].result.dom = None

\* C15 witness: scrape_website, told to skip the dom, returned a screenshot
\* and no dom.
C15_Witness ==
    \E c \in Calls :
        /\ ReturnedScrape(c)
        /\ call[c].tool = "scrape_website"
        /\ ~call[c].opts.dom
        /\ call[c].result.error = None
        /\ call[c].result.screenshot # None
        /\ call[c].result.dom = None

\* The exceptions an invocation that runs alone can meet.
AloneExceptions ==
    {[type |-> "Error", msg |-> "Executable doesn't exist"],
     [type |-> "PlaywrightTimeout", msg |-> "Timeout exceeded"],
     [type |-> "Error", msg |-> "net::ERR_CONNECTION_REFUSED"],
     [type |-> "Exception", msg |-> "HTTP 400 error"],
     [type |-> "Exception", msg |-> "HTTP 503 error"],
     [type |-> "Error", msg |-> "Target crashed"],
     [type |-> "Error", msg |-> "Connection closed"]}

\* The results scrape_website(url, options) can return when it runs alone.
AloneResults(url, opts) ==
    {ScrapeResult(url, None, None, None, Some("Error: " \o e.msg), None) :
        e \in {x \in AloneExceptions : x.type # "PlaywrightTimeout"}}
    \cup
    {ScrapeResult(url, None, None, None,
        Some("Timeout: Page took too long to load (>" \o IntToStr(opts.timeout) \o "ms)"),
        None)}
    \cup
    {ScrapeResult(url, Some(t),
                  IF opts.screenshot THEN Some(B64Encode(ScreenshotBytes)) ELSE None,
                  IF opts.dom THEN Some(PageDom) ELSE None,
                  None, st) :
        t \in PageTitles, st \in {None, Some(200), Some(399)}}

\* The invocation in slot c is past its launch and has not closed its browser.
UsesBrowser(c) == call[c].pc \in {"navigate", "capture", "close"}

\* C16: two interleaved scrape_website invocations never hold the same browser,
\* the browser of an invocation stays open until that invocation closes it, and
\* each returns a result it could have returned when run alone.
C16_InvocationsIndependent ==
    \A c \in Calls :
        /\ \A d \in Calls \ {c} :
              call[c].browser # 0 /\ call[d].browser # 0
                  => call[c].browser # call[d].browser
        /\ UsesBrowser(c) => BrowserOpen(c)
        /\ ReturnedScrape(c) => call[c].result \in AloneResults(call[c].url, call[c].opts)

\* C16 witness: the second invocation launched its browser first and is still
\* at work on its page when the first has returned its successful result.
C16_Witness ==
    /\ ReturnedScrape(1)
    /\ call[1].result.error = None
    /\ call[2].pc = "capture"
    /\ call[2].browser # 0
    /\ call[2].browser < call[1].browser
    /\ call[1].opts # call[2].opts

\* The error scrape_website raises for the status of the response.
HttpError(status) == "Error: HTTP " \o IntToStr(status) \o " error"

\* C18: a navigation that gives a status of 400 or more ends in a result with
\* the error "Error: HTTP <status> error" and with no title, screenshot and DOM
\* captured; a status below 400, or no response object, raises no such error.
C18_HttpStatusError ==
    \A c \in Calls :
        /\ (call[c].status # None /\ Val(call[c].status) >= 400
            /\ call[c].pc \notin {"idle", "navigate"}) =>
              /\ call[c].exc = [type |-> "Exception",
                                msg |-> "HTTP " \o IntToStr(Val(call[c].status)) \o " error"]
              /\ call[c].title = None
              /\ call[c].screenshot_b64 = None
              /\ call[c].dom_content = None
              /\ ReturnedScrape(c) =>
                    /\ call[c].result.error = Some(HttpError(Val(call[c].status)))
                    /\ PayloadUnset(call[c].result)
        /\ (call[c].status = None \/ Val(call[c].status) < 400) =>
              /\ call[c].exc.type # "Exception"
              /\ ReturnedScrape(c) =>
                    \A st \in {400, 503} : call[c].result.error # Some(HttpError(st))

\* C18 witness: a scrape returned after its navigation gave the status 503.
C18_Witness ==
    \E c \in Calls :
        /\ ReturnedScrape(c)
        /\ call[c].status = Some(503)
        /\ call[c].result.error = Some("Error: HTTP 503 error")

\* A scrape went on to a successful result after the status 399.
C18_BelowLimit ==
    \E c \in Calls :
        /\ ReturnedScrape(c)
        /\ call[c].status = Some(399)
        /\ call[c].result.error = None

-----------------------------------------------------------------------------
(* Claims about analyze_ui_ux, checked under SpecAnalyze                   *)

\* analyze_ui_ux has returned for a response whose JSON block json.loads rejects.
UnparsableReturned ==
    /\ ux_pc = "returned"
    /\ ux_text # None
    /\ ~JsonLoads(ExtractJsonText(Val(ux_text))).ok

C12_ScoreInRange ==
    ux_pc = "returned" => ux_result.overall_score \in 1..100

-----------------------------------------------------------------------------
(* Claims about scrape_and_analyze_ui, checked under SpecCombined          *)

\* The positions of the calls of analyze_ui_ux among the calls made.
AnalyzeCalls == {i \in 1..Len(sa_events) : sa_events[i].fn = "analyze_ui_ux"}

\* C17: scrape_and_analyze_ui scrapes first; analyze_ui_ux is called at most
\* once, after a scrape without error, with the screenshot and the DOM of that
\* scrape; after a scrape with an error it is not called and the record has
\* ui_analysis None and the error "Scraping failed: " followed by the scrape error.
C17_ScrapeThenAnalyze ==
    /\ sa_events # <<>> => sa_events[1].fn = "scrape_website"
    /\ AnalyzeCalls \subseteq {2}
    /\ \A i \in AnalyzeCalls :
          /\ sa_scrape # NoResult
          /\ ~Truthy(sa_scrape.error)
          /\ Some(sa_events[i].screenshot_b64) = sa_scrape.screenshot
          /\ sa_events[i].dom_content = sa_scrape.dom
    /\ (sa_pc = "returned" /\ sa_scrape # NoResult /\ Truthy(sa_scrape.error)) =>
          /\ AnalyzeCalls = {}
          /\ sa_result.scrape_result = Some(sa_scrape)
          /\ sa_result.ui_analysis = None
          /\ sa_result.error = Some("Scraping failed: " \o Val(sa_scrape.error))

\* C17 witness: the scrape ended with an HTTP error and the record was returned.
C17_Witness ==
    /\ sa_pc = "returned"
    /\ sa_scrape # NoResult
    /\ sa_scrape.error = Some("Error: HTTP 503 error")
    /\ sa_result.error = Some("Scraping failed: Error: HTTP 503 error")

\* The analysis was made after a scrape without error.
C17_Analyzed ==
    /\ sa_pc = "returned"
    /\ AnalyzeCalls = {2}
    /\ sa_result.ui_analysis # None
    /\ sa_result.error = None

\* OPENROUTER_API_KEY is unset (or empty).
KeyUnset == ~Truthy(env.OPENROUTER_API_KEY)

\* C19: in analyze_ui_screenshot and in analyze_ui_ux the look-up of the key is
\* the first step, and with the key unset it is the only one: the call returns
\* its error with no normalization, no file read and no API request.
C19_KeyCheckFirst ==
    /\ img_pc = "returned" =>
          /\ img_events[1] = "getenv"
          /\ KeyUnset =>
                /\ img_result = Return(MissingKeyMessage)
                /\ img_events = <<"getenv">>
                /\ fs_read = None
    /\ ux_pc = "returned" =>
          /\ ux_events[1] = "getenv"
          /\ KeyUnset =>
                /\ ux_result.error = Some(NoKeyError)
                /\ ux_events = <<"getenv">>

\* C19 witness: without the key, analyze_ui_from_path was called for a file
\* that exists and returned the error without reading it.
C19_Witness ==
    /\ KeyUnset
    /\ img_pc = "returned"
    /\ img_call.tool = "analyze_ui_from_path"
    /\ img_call.image.file_path = Some("shots/a.png")
    /\ img_result = Return(MissingKeyMessage)
    /\ fs_read = None

\* Without the key, analyze_ui_ux returned its error.
C19_UxWithoutKey == KeyUnset /\ ux_pc = "returned" /\ ux_result.error = Some(NoKeyError)

\* The JSON block as the extraction is described: the text between the json
\* fence and the next fence marker, else the text from the first "{" to the
\* last "}".
DescribedBlock(text) ==
    IF Find(text, JsonFence, 0) # -1
    THEN LET from == Find(text, JsonFence, 0) + Len(JsonFence)
         IN  Slice(text, from, Find(text, Fence, from))
    ELSE Slice(text, Find(text, "{", 0), RFind(text, "}") + 1)

\* The text has the markers the description speaks of.
HasMarkers(text) ==
    IF Find(text, JsonFence, 0) # -1
    THEN Find(text, Fence, Find(text, JsonFence, 0) + Len(JsonFence)) # -1
    ELSE Find(text, "{", 0) # -1 /\ RFind(text, "}") # -1

\* analyze_ui_ux returned for a response whose JSON block is a valid JSON object.
ValidObjectReturned ==
    /\ ux_pc = "returned"
    /\ ux_text # None
    /\ HasMarkers(Val(ux_text))
    /\ JsonLoads(DescribedBlock(Val(ux_text))).ok
    /\ JsonLoads(DescribedBlock(Val(ux_text))).v.t = "obj"

\* The extraction agrees with its description, up to surrounding white space.
ExtractionAsDescribed ==
    (ux_pc = "returned" /\ ux_text # None /\ HasMarkers(Val(ux_text))) =>
        Strip(ExtractJsonText(Val(ux_text))) = Strip(DescribedBlock(Val(ux_text)))

\* C21: the JSON block is the text between the json fence and the next fence
\* marker, or else the text from the first "{" to the last "}"; a response
\* whose block is a valid JSON object is parsed into the result, a missing key
\* giving its default: overall_score 50, summary "UI analysis completed",
\* empty lists.
C21_ValidObjectIsParsed ==
    /\ ExtractionAsDescribed
    /\ ValidObjectReturned =>
          LET data == JsonLoads(DescribedBlock(Val(ux_text))).v
          IN  /\ ux_result.error = None
              /\ ~HasKey(data, "overall_score") => ux_result.overall_score = 50
              /\ HasKey(data, "overall_score") =>
                    ux_result.overall_score = Get(data, "overall_score", JNull).n
              /\ ~HasKey(data, "summary") => ux_result.summary = "UI analysis completed"
              /\ ~HasKey(data, "issues") => ux_result.issues = <<>>
              /\ ~HasKey(data, "strengths") => ux_result.strengths = <<>>
              /\ ~HasKey(data, "priority_recommendations") =>
                    ux_result.priority_recommendations = <<>>

\* The values of the keys the result is built from have the types the result
\* model takes.
WellTyped(data) ==
    /\ Get(data, "overall_score", JNum(50)).t = "num"
    /\ Get(data, "summary", JStr("")).t = "str"
    /\ IsStrList(Get(data, "strengths", JArr(<<>>)))
    /\ IsStrList(Get(data, "priority_recommendations", JArr(<<>>)))
    /\ Get(data, "issues", JArr(<<>>)).t = "arr"
    /\ \A i \in 1..Len(Get(data, "issues", JArr(<<>>)).items) :
          IssueOk(Get(data, "issues", JArr(<<>>)).items[i])

\* Restricted to objects whose values have the expected types, the response is
\* parsed into a result without error.
ParsedWhenWellTyped ==
    (ValidObjectReturned /\ WellTyped(JsonLoads(DescribedBlock(Val(ux_text))).v)) =>
        ux_result.error = None

-----------------------------------------------------------------------------
(* Claims about the watcher, checked under SpecWatcher                     *)

\* The step that starts the fix pipeline for the analysis of this iteration.
PipelineStarts == w_pc = "compare" /\ w_pc' \in {"start_browser", "screenshot"}

\* C3: the pipeline starts in an iteration only if the analyzedAt it observed
\* differs from last_analysis_time, and never for a timestamp that already
\* started it while the polls since then kept returning that timestamp.
C3_TriggerOnlyOnNewTimestamp ==
    [][PipelineStarts =>
          /\ HasAnalysis(w_poll)
          /\ w_poll.analyzedAt # last_analysis_time
          /\ w_last_trigger # Some(w_poll.analyzedAt)]_vars

\* C3 witness: a poll returned the timestamp that already started the pipeline,
\* and the loop went on to sleep without starting it again.
C3_Witness ==
    /\ w_pc = "sleep"
    /\ HasAnalysis(w_poll)
    /\ Truthy(w_poll.filename)
    /\ w_last_trigger = Some(w_poll.analyzedAt)
    /\ w_steps = <<>>

\* C9: a failure of a step of an iteration is only logged and the loop goes on:
\* the loop is never left because a step failed.
C9_StepFailureKeepsLooping ==
    w_pc \in {"finally", "returned"} => w_exit \in {"unhealthy", "interrupt"}

\* The fixed order of the pipeline steps of one iteration.
PipelineOrder == <<"take_screenshot", "analyze_with_ai", "apply_fixes">>

\* C11: in one iteration the steps run in the order screenshot, analysis,
\* fixes, each at most once; the analysis runs only after take_screenshot gave
\* a screenshot, and apply_fixes only after the analysis returned with at least
\* one fix of priority high.
C11_PipelineOrder ==
    /\ Len(w_steps) <= Len(PipelineOrder)
    /\ w_steps = SubSeq(PipelineOrder, 1, Len(w_steps))
    /\ Len(w_steps) >= 2 => Truthy(w_screenshot)
    /\ Len(w_steps) >= 3 =>
          /\ w_ai # None
          /\ \E i \in 1..Len(Val(w_ai).priority_fixes) :
                Val(w_ai).priority_fixes[i].priority = "high"

\* C11 witness: an iteration ran all three steps and recorded the timestamp.
C11_Witness ==
    /\ w_pc = "sleep"
    /\ w_steps = PipelineOrder
    /\ last_analysis_time = w_poll.analyzedAt

\* watch_for_changes has returned after having entered its poll loop.
LeftLoop == w_pc = "returned" /\ w_exit \in {"interrupt", "error"}

\* C13: when watch_for_changes leaves its poll loop, through an interrupt or an
\* error, it returns only through stop_browser, and then no browser is open and
\* no driver is running, whether or not a browser was ever started.
C13_CleanupOnExit ==
    /\ [](LeftLoop => w_browser # "open" /\ w_playwright # "started")
    /\ [][w_pc' = "returned" /\ w_exit' \in {"interrupt", "error"} => w_pc = "finally"]_vars

\* C13 witness: the loop was left by an interrupt with a browser launched, and
\* stop_browser closed the browser and stopped the driver.
C13_Witness ==
    /\ LeftLoop
    /\ w_exit = "interrupt"
    /\ w_browser = "closed"
    /\ w_playwright = "stopped"

\* stop_browser returned although no browser and no driver was ever started.
C13_NothingToStop == LeftLoop /\ w_browser = "none" /\ w_playwright = "unset"

\* The iteration is over and its take_screenshot failed: it was called, gave no
\* screenshot, and was not cut short by an interrupt.
ScreenshotFailed ==
    /\ w_pc \in {"sleep", "finally", "returned"}
    /\ w_steps = <<"take_screenshot">>
    /\ w_screenshot = None
    /\ w_exit # "interrupt"

\* C14: when take_screenshot fails in an iteration triggered by timestamp T,
\* last_analysis_time is still set to T, so that later polls returning T do not
\* start the pipeline again.
C14_FailedScreenshotRecordsTimestamp ==
    ScreenshotFailed => last_analysis_time = w_poll.analyzedAt

\* The health check answered, and not with status 200.
Unhealthy ==
    /\ w_health # None
    /\ Val(w_health).kind = "exception" \/ Val(w_health).status # 200

\* C22: the health check is made exactly once, before the first poll; when it
\* fails, watch_for_changes returns without fetching the dashboard, taking a
\* screenshot or starting a browser.
C22_HealthCheckGatesLoop ==
    /\ w_health_checks <= 1
    /\ w_pc # "start" => w_health_checks = 1 /\ w_health # None
    /\ w_pc = "start" => w_health_checks = 0 /\ w_poll = NoPoll
    /\ Unhealthy =>
          /\ w_pc = "returned"
          /\ w_exit = "unhealthy"
          /\ w_poll = NoPoll
          /\ w_steps = <<>>
          /\ w_browser = "none"
          /\ w_playwright = "unset"

\* C22 witness: GET /health answered 503 and watch_for_changes has returned.
C22_Witness ==
    /\ w_health = Some([kind |-> "response", status |-> 503])
    /\ w_pc = "returned"
    /\ w_poll = NoPoll

\* GET /health raised and watch_for_changes has returned.
C22_HealthException ==
    /\ w_health = Some([kind |-> "exception", status |-> 0])
    /\ w_pc = "returned"

\* The iteration at hand started the pipeline.
Triggered == w_steps # <<>>

\* C23: last_analysis_time changes only in an iteration that started the
\* pipeline, for an analysis with a filename and a timestamp other than the one
\* recorded, and it becomes the analyzedAt of that iteration; an iteration whose
\* fetch failed, gave another status or success false, gave no filename or gave
\* the recorded timestamp leaves it as it was.
C23_TimestampFrame ==
    /\ []((w_pc = "sleep" /\ Triggered) => last_analysis_time = w_poll.analyzedAt)
    /\ [][last_analysis_time' # last_analysis_time =>
             /\ Triggered
             /\ HasAnalysis(w_poll)
             /\ Truthy(w_poll.filename)
             /\ w_poll.analyzedAt # last_analysis_time
             /\ last_analysis_time' = w_poll.analyzedAt]_vars

\* C23 witness: a timestamp is recorded, and an iteration whose dashboard gave
\* a new timestamp without a filename went to sleep with the record unchanged.
C23_Witness ==
    /\ w_pc = "sleep"
    /\ ~Triggered
    /\ HasAnalysis(w_poll)
    /\ ~Truthy(w_poll.filename)
    /\ last_analysis_time # None
    /\ w_poll.analyzedAt # None
    /\ w_poll.analyzedAt # last_analysis_time

\* An iteration whose fetch failed went to sleep with a timestamp on record.
C23_FailedFetch ==
    /\ w_pc = "sleep"
    /\ w_poll.kind = "exception"
    /\ last_analysis_time # None

====
